---- MODULE Spec2Model ----
(***************************************************************************)
(* Model of TextMeshCreatorOperation (src/src/operator.py): the execute    *)
(* driver, create_object, separate_by_loose_parts and export_object.       *)
(* Strings are sequences of one-character strings.  The host (bpy) calls   *)
(* are modelled by their effect on the scene collection; the outcomes the  *)
(* host decides (font load, bounding-box origin, export) are chosen        *)
(* nondeterministically.                                                   *)
(***************************************************************************)
EXTENDS Integers, Sequences, FiniteSets, TLC

VARIABLES props, pc, result, reports, font, number, characters, idx,
          scene, separated_objects, cand, objects, exportLog, files

vars == <<props, pc, result, reports, font, number, characters, idx,
          scene, separated_objects, cand, objects, exportLog, files>>

-----------------------------------------------------------------------------
(* Bounds of the model *)

\* longest props.strings
MaxLen == 3

\* most objects bpy.ops.mesh.separate adds to context.selected_objects
MaxParts == 1

(* Input samples *)

Alphabet == {"A", "B", " ", "\t"}

Texts == UNION {[1..n -> Alphabet] : n \in 0..MaxLen}

SeparateBy == {"CHARACTER", "NONE", "SPACE", "TAB"}

FontPaths == {<<>>, <<" ">>, <<"f">>}

StartNumbers == {0, 5, 9}

ExportPaths == {<<"o">>}

\* origin.y values the host may report, and props.thickness, in units of 1e-5
OriginYs == {0, 100000, 100001, 100002}

Thickness == {100000}

-----------------------------------------------------------------------------
(* Pure helpers *)

Range(s) == {s[k] : k \in 1..Len(s)}

Abs(x) == IF x < 0 THEN -x ELSE x

Max(a, b) == IF a >= b THEN a ELSE b

\* 1 / rel_tol of math.isclose(origin.y, extrude, rel_tol=1e-5)
RelTolInv == 100000

\* math.isclose(a, b, rel_tol=1e-5), abs_tol = 0, on integers:
\* |a - b| <= rel_tol * max(|a|, |b|)
IsClose(a, b) == a = b \/ Abs(a - b) <= Max(Abs(a), Abs(b)) \div RelTolInv

Whitespace == {" ", "\t"}

RECURSIVE LStrip(_)
LStrip(s) == IF s # <<>> /\ Head(s) \in Whitespace THEN LStrip(Tail(s)) ELSE s

RECURSIVE RStrip(_)
RStrip(s) ==
    IF s # <<>> /\ s[Len(s)] \in Whitespace
    THEN RStrip(SubSeq(s, 1, Len(s) - 1))
    ELSE s

\* str.strip()
Strip(s) == RStrip(LStrip(s))

\* self.separators()
separators == [SPACE |-> " ", TAB |-> "\t"]

\* str.find(sep) for a one-character sep, 1-based; 0 when absent
Find(s, sep) ==
    IF \E k \in 1..Len(s) : s[k] = sep
    THEN CHOOSE k \in 1..Len(s) : s[k] = sep /\ \A j \in 1..(k - 1) : s[j] # sep
    ELSE 0

\* Split as str.split() without an argument would cut: empty pieces dropped
RECURSIVE Split_DropEmpty(_, _)
Split_DropEmpty(s, sep) ==
    LET p == Find(s, sep)
    IN  IF p = 0
        THEN IF s = <<>> THEN <<>> ELSE <<s>>
        ELSE (IF p = 1 THEN <<>> ELSE <<SubSeq(s, 1, p - 1)>>)
             \o Split_DropEmpty(SubSeq(s, p + 1, Len(s)), sep)

\* str.split(sep): cut at every occurrence of sep, empty pieces kept
RECURSIVE Split(_, _)
Split(s, sep) ==
    LET p == Find(s, sep)
    IN  IF p = 0
        THEN <<s>>
        ELSE <<SubSeq(s, 1, p - 1)>> \o Split(SubSeq(s, p + 1, Len(s)), sep)

\* list(str)
ListOf(s) == [k \in 1..Len(s) |-> <<s[k]>>]

\* lines 173-178: the units of props.strings under props.separate_by
Partition(strings, separate_by) ==
    IF separate_by = "CHARACTER" THEN ListOf(strings)
    ELSE IF separate_by # "NONE" THEN Split(strings, separators[separate_by])
    ELSE <<strings>>

DigitChars == <<"0", "1", "2", "3", "4", "5", "6", "7", "8", "9">>

\* str(n) of "%s" % n, n >= 0
RECURSIVE Str(_)
Str(n) ==
    IF n < 10
    THEN <<DigitChars[n + 1]>>
    ELSE Str(n \div 10) \o <<DigitChars[(n % 10) + 1]>>

\* "%s-%s.fbx" % (number, name)
FileName(n, name) == Str(n) \o <<"-">> \o name \o <<".", "f", "b", "x">>

\* os.path.join(dirpath, filename) on a POSIX host
PathJoin(dirpath, filename) ==
    IF filename # <<>> /\ Head(filename) = "/" THEN filename
    ELSE IF dirpath = <<>> \/ dirpath[Len(dirpath)] = "/" THEN dirpath \o filename
    ELSE dirpath \o <<"/">> \o filename

\* scene objects: the unit that created them and their place in that unit
CurveObj(u) == [unit |-> u, part |-> 0]

MeshObj(u) == [unit |-> u, part |-> 1]

LooseObj(u, k) == [unit |-> u, part |-> 1 + k]

-----------------------------------------------------------------------------
(* State *)

Init ==
    /\ props \in [strings : Texts,
                  separate_by : SeparateBy,
                  is_preview : BOOLEAN,
                  separate_by_loose_parts : BOOLEAN,
                  font_path : FontPaths,
                  increment_from : StartNumbers,
                  export_path : ExportPaths,
                  thickness : Thickness]
    /\ pc = "load_font"
    /\ result = "NONE"
    /\ reports = 0
    /\ font = "unbound"
    /\ number = props.increment_from
    /\ characters = <<>>
    /\ idx = 0
    /\ scene = {}
    /\ separated_objects = <<>>
    /\ cand = 0
    /\ objects = <<>>
    /\ exportLog = <<>>
    /\ files = {}

-----------------------------------------------------------------------------
(* execute, lines 164-169: the font is loaded only for a non-blank path *)

\* line 164 false: nothing is assigned to the local `font`
SkipLoadFont ==
    /\ pc = "load_font"
    /\ Strip(props.font_path) = <<>>
    /\ pc' = "partition"
    /\ UNCHANGED <<props, result, reports, font, number, characters, idx,
                   scene, separated_objects, cand, objects, exportLog, files>>

\* line 166 returns a font
LoadFontOk ==
    /\ pc = "load_font"
    /\ Strip(props.font_path) # <<>>
    /\ font' = "loaded"
    /\ pc' = "partition"
    /\ UNCHANGED <<props, result, reports, number, characters, idx,
                   scene, separated_objects, cand, objects, exportLog, files>>

\* LoadFontFail without the return of line 169
LoadFontFail_NoReturn ==
    /\ pc = "load_font"
    /\ Strip(props.font_path) # <<>>
    /\ reports' = reports + 1
    /\ pc' = "partition"
    /\ UNCHANGED <<props, result, font, number, characters, idx,
                   scene, separated_objects, cand, objects, exportLog, files>>

\* line 166 raises RuntimeError: lines 167-169
LoadFontFail ==
    /\ pc = "load_font"
    /\ Strip(props.font_path) # <<>>
    /\ reports' = reports + 1
    /\ result' = "CANCELLED"
    /\ pc' = "done"
    /\ UNCHANGED <<props, font, number, characters, idx,
                   scene, separated_objects, cand, objects, exportLog, files>>

(* execute, lines 171-178 *)
PartitionText ==
    /\ pc = "partition"
    /\ characters' = Partition(props.strings, props.separate_by)
    /\ pc' = "preview"
    /\ UNCHANGED <<props, result, reports, font, number, idx,
                   scene, separated_objects, cand, objects, exportLog, files>>

(* execute, lines 180-181 *)

\* line 180 false
NotPreview ==
    /\ pc = "preview"
    /\ ~props.is_preview
    /\ idx' = 1
    /\ pc' = "loop"
    /\ UNCHANGED <<props, result, reports, font, number, characters,
                   scene, separated_objects, cand, objects, exportLog, files>>

\* line 181 on a non-empty list
PreviewFirst ==
    /\ pc = "preview"
    /\ props.is_preview
    /\ characters # <<>>
    /\ characters' = <<characters[1]>>
    /\ idx' = 1
    /\ pc' = "loop"
    /\ UNCHANGED <<props, result, reports, font, number,
                   scene, separated_objects, cand, objects, exportLog, files>>

\* line 181 on the empty list: characters[0] raises IndexError out of execute
PreviewIndexError ==
    /\ pc = "preview"
    /\ props.is_preview
    /\ characters = <<>>
    /\ result' = "IndexError"
    /\ pc' = "done"
    /\ UNCHANGED <<props, reports, font, number, characters, idx,
                   scene, separated_objects, cand, objects, exportLog, files>>

(* execute, lines 183-186 *)

\* the loop is exhausted: line 186
Finished ==
    /\ pc = "loop"
    /\ idx > Len(characters)
    /\ result' = "FINISHED"
    /\ pc' = "done"
    /\ UNCHANGED <<props, reports, font, number, characters, idx,
                   scene, separated_objects, cand, objects, exportLog, files>>

\* line 184 reads the local `font`, which line 161 only annotates:
\* UnboundLocalError out of execute when line 166 never ran
UnboundFont ==
    /\ pc = "loop"
    /\ idx <= Len(characters)
    /\ font = "unbound"
    /\ result' = "UnboundLocalError"
    /\ pc' = "done"
    /\ UNCHANGED <<props, reports, font, number, characters, idx,
                   scene, separated_objects, cand, objects, exportLog, files>>

(* create_object *)

\* lines 105-115: the text curve and its object, linked to the scene
CreateCurve ==
    /\ pc = "loop"
    /\ idx <= Len(characters)
    /\ font # "unbound"
    /\ scene' = scene \cup {CurveObj(idx)}
    /\ pc' = "mesh"
    /\ UNCHANGED <<props, result, reports, font, number, characters, idx,
                   separated_objects, cand, objects, exportLog, files>>

\* lines 117-147: the mesh object is linked, the curve object unlinked;
\* line 149 picks the branch; line 157 passes [font_object_f]
CreateMesh ==
    /\ pc = "mesh"
    /\ scene' = (scene \cup {MeshObj(idx)}) \ {CurveObj(idx)}
    /\ IF props.separate_by_loose_parts
       THEN pc' = "separate" /\ objects' = objects
       ELSE pc' = "ready" /\ objects' = <<MeshObj(idx)>>
    /\ UNCHANGED <<props, result, reports, font, number, characters, idx,
                   separated_objects, cand, exportLog, files>>

(* separate_by_loose_parts *)

\* lines 74-79: the host splits the mesh into the object and n new objects
MeshSeparate ==
    /\ pc = "separate"
    /\ \E n \in 0..MaxParts :
        /\ scene' = scene \cup {LooseObj(idx, k) : k \in 1..n}
        /\ separated_objects' =
               <<MeshObj(idx)>> \o [k \in 1..n |-> LooseObj(idx, k)]
    /\ objects' = <<>>
    /\ cand' = 1
    /\ pc' = "filter"
    /\ UNCHANGED <<props, result, reports, font, number, characters, idx,
                   exportLog, files>>

\* lines 81-100: one pass of the loop; y is origin.y of the candidate
FilterCandidate ==
    /\ pc = "filter"
    /\ cand <= Len(separated_objects)
    /\ \E y \in OriginYs :
        IF ~IsClose(y, props.thickness)
        THEN /\ scene' = scene \ {separated_objects[cand]}
             /\ objects' = objects
        ELSE /\ scene' = scene
             /\ objects' = Append(objects, separated_objects[cand])
    /\ cand' = cand + 1
    /\ UNCHANGED <<props, pc, result, reports, font, number, characters, idx,
                   separated_objects, exportLog, files>>

\* line 102 returns to line 150
FilterDone ==
    /\ pc = "filter"
    /\ cand > Len(separated_objects)
    /\ pc' = "ready"
    /\ UNCHANGED <<props, result, reports, font, number, characters, idx,
                   scene, separated_objects, cand, objects, exportLog, files>>

(* export_object, called from lines 153 and 157 *)

\* NextNumber counting attempts: a failed export advances the counter too
NextNumber_CountAttempts(n, ok) == n + 1

\* NextNumber never advancing: line 63 returning number
NextNumber_Stuck(n, ok) == n

\* lines 63 and 66: the value export_object returns
NextNumber(n, ok) == IF ok THEN n + 1 ELSE n

\* lines 67-71: bpy.ops.object.delete on the objects handed to the export
SceneAfterDelete(sc, objs) == sc \ Range(objs)

\* the entry export_object adds to the record of export attempts
LogEntry(ok) ==
    [number |-> number,
     name |-> characters[idx],
     filepath |-> PathJoin(props.export_path, FileName(number, characters[idx])),
     ok |-> ok]

\* ExportObject with the cleanup at the end of the try block, not in finally
ExportObject_NoFinally ==
    /\ pc = "ready"
    /\ ~props.is_preview
    /\ \E ok \in BOOLEAN :
        /\ exportLog' = Append(exportLog, LogEntry(ok))
        /\ files' = IF ok THEN files \cup {LogEntry(ok).filepath} ELSE files
        /\ number' = NextNumber(number, ok)
        /\ scene' = IF ok THEN SceneAfterDelete(scene, objects) ELSE scene
    /\ idx' = idx + 1
    /\ pc' = "loop"
    /\ UNCHANGED <<props, result, reports, font, characters,
                   separated_objects, cand, objects>>

\* ExportObject returning early, without an export, on an empty object list
ExportObject_SkipEmpty ==
    /\ pc = "ready"
    /\ ~props.is_preview
    /\ IF objects = <<>>
       THEN UNCHANGED <<exportLog, files, number, scene>>
       ELSE \E ok \in BOOLEAN :
               /\ exportLog' = Append(exportLog, LogEntry(ok))
               /\ files' = IF ok THEN files \cup {LogEntry(ok).filepath}
                                 ELSE files
               /\ number' = NextNumber(number, ok)
               /\ scene' = SceneAfterDelete(scene, objects)
    /\ idx' = idx + 1
    /\ pc' = "loop"
    /\ UNCHANGED <<props, result, reports, font, characters,
                   separated_objects, cand, objects>>

\* lines 27-71 and the assignment of line 184: ok is the outcome of the
\* host's export (line 32); the finally block (lines 67-71) runs on both
ExportObject ==
    /\ pc = "ready"
    /\ ~props.is_preview
    /\ \E ok \in BOOLEAN :
        /\ exportLog' = Append(exportLog, LogEntry(ok))
        /\ files' = IF ok THEN files \cup {LogEntry(ok).filepath} ELSE files
        /\ number' = NextNumber(number, ok)
    /\ scene' = SceneAfterDelete(scene, objects)
    /\ idx' = idx + 1
    /\ pc' = "loop"
    /\ UNCHANGED <<props, result, reports, font, characters,
                   separated_objects, cand, objects>>

(* create_object, lines 151-152 and 155-156 *)

\* PreviewReturn without the checks of lines 151 and 155: preview exports
PreviewReturn_Exports ==
    /\ pc = "ready"
    /\ props.is_preview
    /\ \E ok \in BOOLEAN :
        /\ exportLog' = Append(exportLog, LogEntry(ok))
        /\ files' = IF ok THEN files \cup {LogEntry(ok).filepath} ELSE files
        /\ number' = NextNumber(number, ok)
    /\ scene' = SceneAfterDelete(scene, objects)
    /\ idx' = idx + 1
    /\ pc' = "loop"
    /\ UNCHANGED <<props, result, reports, font, characters,
                   separated_objects, cand, objects>>

\* preview returns the number unchanged
PreviewReturn ==
    /\ pc = "ready"
    /\ props.is_preview
    /\ idx' = idx + 1
    /\ pc' = "loop"
    /\ UNCHANGED <<props, result, reports, font, number, characters,
                   scene, separated_objects, cand, objects, exportLog, files>>

-----------------------------------------------------------------------------
Next ==
    \/ SkipLoadFont
    \/ LoadFontOk
    \/ LoadFontFail
    \/ PartitionText
    \/ NotPreview
    \/ PreviewFirst
    \/ PreviewIndexError
    \/ Finished
    \/ UnboundFont
    \/ CreateCurve
    \/ CreateMesh
    \/ MeshSeparate
    \/ FilterCandidate
    \/ FilterDone
    \/ PreviewReturn
    \/ ExportObject

Spec == Init /\ [][Next]_vars

\* the runs that number their files from 0
InitFromZero == Init /\ props.increment_from = 0

\* execute runs to completion on the host's single thread: a step that can
\* be taken is taken
FairSpec == InitFromZero /\ [][Next]_vars /\ WF_vars(Next)

TypeOK ==
    /\ pc \in {"load_font", "partition", "preview", "loop", "mesh", "separate",
               "filter", "ready", "done"}
    /\ result \in {"NONE", "FINISHED", "CANCELLED", "IndexError",
                   "UnboundLocalError"}
    /\ font \in {"unbound", "loaded"}
    /\ number \in Nat
    /\ idx \in Nat

-----------------------------------------------------------------------------
(* Properties *)

\* the counter after export attempt k: the number the next attempt starts
\* from, or the current counter after the last attempt
NumberAfter(k) ==
    IF k < Len(exportLog) THEN exportLog[k + 1].number ELSE number

Succeeded == {k \in 1..Len(exportLog) : exportLog[k].ok}

Failed == {k \in 1..Len(exportLog) : ~exportLog[k].ok}

\* C1: the driver threads the counter from props.increment_from; every
\* successful call of export_object returns number + 1, every call failing
\* with RuntimeError returns number unchanged, and the counter never
\* decreases from one unit to the next.
C1_CounterPerExport ==
    /\ exportLog = <<>> => number = props.increment_from
    /\ exportLog # <<>> => exportLog[1].number = props.increment_from
    /\ \A k \in 1..Len(exportLog) :
        /\ exportLog[k].ok => NumberAfter(k) = exportLog[k].number + 1
        /\ ~exportLog[k].ok => NumberAfter(k) = exportLog[k].number
        /\ NumberAfter(k) >= exportLog[k].number

\* a run in which one export failed and a later one succeeded
C1_Witness ==
    /\ Len(exportLog) >= 3
    /\ ~exportLog[1].ok
    /\ exportLog[2].ok
    /\ ~exportLog[3].ok
    /\ number = props.increment_from + 1

\* C2: in non-preview mode every scene object created for a unit (curve
\* object, mesh object, every loose-part candidate) is out of the scene when
\* the unit's processing ends, whatever the export's outcome; while a unit
\* is processed the scene holds objects of that unit only.
C2_SceneCleanPerUnit ==
    ~props.is_preview =>
        /\ pc \in {"loop", "done"} => scene = {}
        /\ \A o \in scene : o.unit = idx

\* a unit split in two candidates, one discarded and one kept, whose export
\* failed, has ended
C2_Witness ==
    /\ ~props.is_preview
    /\ pc = "loop"
    /\ idx = 3
    /\ ~exportLog[2].ok
    /\ Len(separated_objects) = 2
    /\ Len(objects) = 1
    /\ scene = {}

\* C5: when a non-blank font path fails to load, the run reports one error
\* and is cancelled before the text is partitioned: no object is created,
\* no export attempted, no file written.
C5_FontFailureCancels ==
    (reports > 0 \/ result = "CANCELLED") =>
        /\ Strip(props.font_path) # <<>>
        /\ reports = 1
        /\ result = "CANCELLED"
        /\ pc = "done"
        /\ font = "unbound"
        /\ characters = <<>>
        /\ idx = 0
        /\ scene = {}
        /\ exportLog = <<>>
        /\ files = {}

\* a cancelled run over a text that has three units
C5_Witness ==
    /\ result = "CANCELLED"
    /\ Len(props.strings) = 3
    /\ props.separate_by = "CHARACTER"
    /\ ~props.is_preview

RECURSIVE Join(_, _)
Join(units, sep) ==
    IF units = <<>> THEN <<>>
    ELSE IF Len(units) = 1 THEN units[1]
    ELSE units[1] \o <<sep>> \o Join(Tail(units), sep)

RECURSIVE Concat(_)
Concat(units) == IF units = <<>> THEN <<>> ELSE units[1] \o Concat(Tail(units))

Occurrences(s, c) == Cardinality({k \in 1..Len(s) : s[k] = c})

\* C6: in non-preview mode the units are the text in order with nothing
\* lost: SPACE/TAB units joined with the separator give the text back and
\* empty units are kept (one unit more than separators); CHARACTER units
\* are single characters whose concatenation is the text; NONE gives the
\* text as the only unit.
C6_PartitionRoundTrip ==
    (~props.is_preview /\ pc \notin {"load_font", "partition"}
                       /\ result # "CANCELLED") =>
        CASE props.separate_by \in {"SPACE", "TAB"} ->
                LET sep == separators[props.separate_by]
                IN  /\ Join(characters, sep) = props.strings
                    /\ Len(characters) = Occurrences(props.strings, sep) + 1
                    /\ \A k \in 1..Len(characters) :
                           Occurrences(characters[k], sep) = 0
          [] props.separate_by = "CHARACTER" ->
                /\ Concat(characters) = props.strings
                /\ \A k \in 1..Len(characters) : Len(characters[k]) = 1
          [] props.separate_by = "NONE" ->
                characters = <<props.strings>>

\* " A " by space: leading and trailing separators give empty units
C6_Witness ==
    /\ ~props.is_preview
    /\ props.separate_by = "SPACE"
    /\ props.strings = <<" ", "A", " ">>
    /\ characters = << <<>>, <<"A">>, <<>> >>
    /\ pc = "done"

\* C10: within a run the numbers of the successful exports increase
\* strictly in unit order, so no two successful exports write the same
\* file, also for units of equal text; a number is used by two attempts
\* only when every earlier attempt with it failed.
C10_SuccessNumbersDistinct ==
    /\ \A j, k \in 1..Len(exportLog) :
        j < k =>
            /\ (exportLog[j].ok /\ exportLog[k].ok) =>
                   /\ exportLog[j].number < exportLog[k].number
                   /\ exportLog[j].filepath # exportLog[k].filepath
            /\ exportLog[j].number = exportLog[k].number => ~exportLog[j].ok
    /\ Cardinality(files) = Cardinality(Succeeded)

\* two units of equal text, a failed export between two successful ones
C10_Witness ==
    /\ Len(exportLog) = 3
    /\ exportLog[1].name = exportLog[3].name
    /\ exportLog[1].ok
    /\ ~exportLog[2].ok
    /\ exportLog[3].ok
    /\ exportLog[2].number = exportLog[3].number

\* the unit names of the export attempts, in the order they were made
Attempted == [k \in 1..Len(exportLog) |-> exportLog[k].name]

\* C3: a non-preview run whose font loaded makes exactly one export attempt
\* per unit, in unit order, whether attempts succeed or fail and also when
\* the loose-part filter keeps nothing, and then ends "finished".
C3_OneExportPerUnit ==
    /\ []((~props.is_preview /\ idx >= 1) =>
            /\ Len(exportLog) = idx - 1
            /\ Attempted = SubSeq(characters, 1, idx - 1))
    /\ (~props.is_preview /\ font = "loaded") ~>
            (pc = "done" /\ result = "FINISHED" /\ Attempted = characters)

\* a finished run of three units in which an export failed and the last
\* export was attempted with an empty object list
C3_Witness ==
    /\ ~props.is_preview
    /\ pc = "done"
    /\ result = "FINISHED"
    /\ Len(characters) = 3
    /\ Attempted = characters
    /\ Failed # {}
    /\ Succeeded # {}
    /\ props.separate_by_loose_parts
    /\ objects = <<>>

\* C4 as stated: in preview mode at most one unit is processed, nothing is
\* exported, the counter is unchanged and no object leaves the scene.
C4_NothingLeavesScene ==
    /\ [](props.is_preview =>
            /\ idx <= 2
            /\ exportLog = <<>>
            /\ files = {}
            /\ number = props.increment_from)
    /\ [][props.is_preview => scene \subseteq scene']_vars

\* C4 amended: in preview mode at most one unit is processed, nothing is
\* exported, the counter is unchanged and nothing is deleted; the objects
\* unlinked from the scene are the intermediate curve object and the
\* loose-part candidates the position filter rejects, and a finished
\* preview leaves exactly the kept objects in the scene.
C4_PreviewUnlinksOnlyRejected ==
    /\ [](props.is_preview =>
            /\ idx <= 2
            /\ exportLog = <<>>
            /\ files = {}
            /\ number = props.increment_from
            /\ (result = "FINISHED" => scene = Range(objects) /\ idx = 2))
    /\ [][props.is_preview =>
            (scene \ scene') \subseteq
                ({CurveObj(idx)} \cup
                 (Range(separated_objects) \ Range(objects')))]_vars

\* a finished preview whose filter rejected one of two candidates
C4_Witness ==
    /\ props.is_preview
    /\ result = "FINISHED"
    /\ Len(separated_objects) = 2
    /\ Len(objects) = 1
    /\ scene = Range(objects)
    /\ exportLog = <<>>

\* the file a successful export of unit k of a run starting at s writes
ExpectedPath(k) ==
    PathJoin(props.export_path,
             Str(props.increment_from + (k - 1)) \o <<"-">>
                 \o Partition(props.strings, props.separate_by)[k]
                 \o <<".", "f", "b", "x">>)

\* C7: a non-preview run of N units from number s in which every export
\* succeeds exports unit i (0-based) to "{s+i}-{unit}.fbx" in the output
\* directory, in unit order, and ends with the counter at s + N.
C7_FilesNumberedInOrder ==
    (/\ ~props.is_preview
     /\ pc = "done"
     /\ result # "CANCELLED"
     /\ Failed = {}) =>
        LET N == Len(Partition(props.strings, props.separate_by))
        IN  /\ Len(exportLog) = N
            /\ \A k \in 1..N : exportLog[k].filepath = ExpectedPath(k)
            /\ files = {ExpectedPath(k) : k \in 1..N}
            /\ number = props.increment_from + N

\* the same numbering, for the runs whose font was loaded
FilesNumberedWhenFontLoaded ==
    (/\ ~props.is_preview
     /\ pc = "done"
     /\ font = "loaded"
     /\ Failed = {}) =>
        LET N == Len(Partition(props.strings, props.separate_by))
        IN  /\ Len(exportLog) = N
            /\ \A k \in 1..N : exportLog[k].filepath = ExpectedPath(k)
            /\ number = props.increment_from + N

\* C8, for the texts that have a unit to synthesize: with a blank font path
\* the font load is skipped and the run still processes every unit and ends
\* "finished"; the only run that does not end "finished" is one whose font
\* load failed.
C8_BlankFontPathFinishes ==
    (pc = "done" /\ Partition(props.strings, props.separate_by) # <<>>) =>
        /\ Strip(props.font_path) = <<>> =>
               /\ result = "FINISHED"
               /\ idx = Len(characters) + 1
        /\ result # "FINISHED" => (result = "CANCELLED" /\ reports = 1)

\* C9: in preview mode the units are cut to the first one; when there is
\* no unit (CHARACTER on the empty text) the run ends "finished" with no
\* object created; NONE, SPACE and TAB always give a first unit.
C9_PreviewOfNoUnitFinishes ==
    /\ (props.is_preview /\ pc \in {"loop", "mesh", "separate", "filter",
                                   "ready"}) =>
           characters = <<Partition(props.strings, props.separate_by)[1]>>
    /\ props.separate_by # "CHARACTER" =>
           Partition(props.strings, props.separate_by) # <<>>
    /\ (/\ props.is_preview
        /\ pc = "done"
        /\ result # "CANCELLED"
        /\ Partition(props.strings, props.separate_by) = <<>>) =>
           (result = "FINISHED" /\ scene = {})

====
